---- MODULE Spec2Model ----
(***************************************************************************)
(* A model of the StepFunction interpreter (Arduino-Step-Function): a      *)
(* JSON-described state machine of Task, Choice and Wait states that is    *)
(* advanced by repeated, non-blocking run() calls.                         *)
(*                                                                         *)
(* The repository holds two revisions of the interpreter,                  *)
(*   src/src/step-function.cpp  (revision 1: Wait reads "Seconds")         *)
(*   src/src/StepFunction.cpp   (revision 2: Wait reads "Millis", LOG)     *)
(* and the variable rev says which of them a behaviour runs.               *)
(***************************************************************************)
EXTENDS Integers, Sequences, FiniteSets, TLC

(***************************************************************************)
(* JSON values, as the ArduinoJson document model holds them.  Every value *)
(* is a record of the same shape: t is the kind, s a string's text, n a    *)
(* number's value, kv the members of an object (or the elements of an      *)
(* array, with empty keys) in document order.                              *)
(***************************************************************************)
JNull == [t |-> "null", s |-> "", n |-> 0, kv |-> <<>>]

JStr(x) == [t |-> "str", s |-> x, n |-> 0, kv |-> <<>>]

JInt(x) == [t |-> "num", s |-> "", n |-> x, kv |-> <<>>]

JObj(members) == [t |-> "obj", s |-> "", n |-> 0, kv |-> members]

JArr(elems) ==
    [t |-> "arr", s |-> "", n |-> 0,
     kv |-> [i \in 1..Len(elems) |-> [k |-> "", v |-> elems[i]]]]

KV(key, val) == [k |-> key, v |-> val]

(***************************************************************************)
(* unsigned long (waitUntil, recommendedDelay, millis()) is 32 bits wide.  *)
(* A value u is held as its 32-bit pattern read in two's complement: u     *)
(* itself below 2^31, and u - 2^32 from 2^31 on, so that -1 stands for     *)
(* 2^32 - 1 and is followed by 0.  Addition and subtraction modulo 2^32    *)
(* are then the integers' own; only the order has to be spelled out.       *)
(***************************************************************************)
\* a < b on unsigned long
ULess(a, b) == IF (a < 0) = (b < 0) THEN a < b ELSE a >= 0

\* a + b on unsigned long
UAdd(a, b) == a + b

\* a - b on unsigned long
USub(a, b) == a - b

\* a JSON number of 2^31 or more, given by its pattern (a negative n)
JBig(x) == [t |-> "big", s |-> "", n |-> x, kv |-> <<>>]

\* an unsigned long written as a JSON number
JULong(u) == IF u >= 0 THEN JInt(u) ELSE JBig(u)

\* v[key] on a JsonVariant: the first member with that key, null when v is
\* no object or has no such member
Member(v, key) ==
    IF v.t = "obj" /\ \E i \in 1..Len(v.kv) : v.kv[i].k = key
    THEN LET i == CHOOSE j \in 1..Len(v.kv) :
                      /\ v.kv[j].k = key
                      /\ \A h \in 1..(j - 1) : v.kv[h].k # key
         IN v.kv[i].v
    ELSE JNull

\* v.is<String>()
IsString(v) == v.t = "str"

\* v.isNull()
IsNull(v) == v.t = "null"

\* v.as<String>(): a string's text; any other value is written as JSON
\* text, so null (and a missing member) reads as "null" and 5 as "5"
AsString(v) ==
    CASE v.t = "str" -> v.s
      [] v.t = "null" -> "null"
      [] v.t = "num" -> ToString(v.n)
      [] v.t = "big" -> "2^32" \o ToString(v.n)
      [] v.t = "obj" -> "{..}"
      [] OTHER -> "[..]"

\* v.as<int>(): a number's value, 0 for anything that is no number or
\* does not fit an int
AsInt(v) == IF v.t = "num" THEN v.n ELSE 0

\* v.as<unsigned long>(): 0 unless a number within the type's range
AsULong(v) ==
    CASE v.t = "num" /\ v.n >= 0 -> v.n
      [] v.t = "big" -> v.n
      [] OTHER -> 0

\* v.as<JsonObject>(): the object, or a null reference
AsObject(v) == IF v.t = "obj" THEN v ELSE JNull

\* v.as<JsonArray>() iterated: the elements, none when v is no array
Elements(v) ==
    IF v.t = "arr" THEN [i \in 1..Len(v.kv) |-> v.kv[i].v] ELSE <<>>

\* doc[key] = val on a JsonDocument: a null document becomes an object;
\* an existing member is overwritten in place, a new one is appended
SetMember(v, key, val) ==
    LET o == IF v.t = "obj" THEN v.kv ELSE <<>>
    IN IF \E i \in 1..Len(o) : o[i].k = key
       THEN JObj([i \in 1..Len(o) |->
                    IF o[i].k = key /\ \A h \in 1..(i - 1) : o[h].k # key
                    THEN KV(key, val) ELSE o[i]])
       ELSE JObj(Append(o, KV(key, val)))

(***************************************************************************)
(* JSON text.  A text is a sequence of tokens; serializeJson writes a      *)
(* value as tokens and deserializeJson parses tokens back into a value.    *)
(***************************************************************************)
Tok(kind, str, num) == [k |-> kind, s |-> str, n |-> num]

TLBrace == Tok("{", "", 0)
TRBrace == Tok("}", "", 0)
TLBrack == Tok("[", "", 0)
TRBrack == Tok("]", "", 0)
TColon == Tok(":", "", 0)
TComma == Tok(",", "", 0)
TNull == Tok("null", "", 0)
TStr(x) == Tok("str", x, 0)
TNum(x) == Tok("num", "", x)
TBig(x) == Tok("big", "", x)
\* a character sequence that starts no JSON value
TJunk == Tok("junk", "", 0)

RECURSIVE Serialize(_)
RECURSIVE SerializeMembers(_, _, _)
\* the members (or elements) kv[i..] of an object (array), comma separated
SerializeMembers(kv, i, isObj) ==
    IF i > Len(kv) THEN <<>>
    ELSE (IF i > 1 THEN <<TComma>> ELSE <<>>)
         \o (IF isObj THEN <<TStr(kv[i].k), TColon>> ELSE <<>>)
         \o Serialize(kv[i].v)
         \o SerializeMembers(kv, i + 1, isObj)

\* serializeJson(v, text)
Serialize(v) ==
    CASE v.t = "null" -> <<TNull>>
      [] v.t = "str" -> <<TStr(v.s)>>
      [] v.t = "num" -> <<TNum(v.n)>>
      [] v.t = "big" -> <<TBig(v.n)>>
      [] v.t = "obj" -> <<TLBrace>> \o SerializeMembers(v.kv, 1, TRUE) \o <<TRBrace>>
      [] OTHER -> <<TLBrack>> \o SerializeMembers(v.kv, 1, FALSE) \o <<TRBrack>>

\* a parse result: err is the DeserializationError, v the value built so far
\* (what a failed parse leaves behind), i the next unread token
PR(err, val, next) == [err |-> err, v |-> val, i |-> next]

RECURSIVE ParseValue(_, _)
RECURSIVE ParseMembers(_, _, _)
RECURSIVE ParseElements(_, _, _)
\* the members of an object after "{" or after a ","
ParseMembers(text, i, acc) ==
    IF i + 1 > Len(text) \/ text[i].k # "str" \/ text[i + 1].k # ":"
    THEN PR(TRUE, JObj(acc), i)
    ELSE LET r == ParseValue(text, i + 2)
             acc2 == SetMember(JObj(acc), text[i].s, r.v).kv
         IN IF r.err THEN PR(TRUE, JObj(acc2), r.i)
            ELSE IF r.i > Len(text) THEN PR(TRUE, JObj(acc2), r.i)
            ELSE IF text[r.i].k = "}" THEN PR(FALSE, JObj(acc2), r.i + 1)
            ELSE IF text[r.i].k = "," THEN ParseMembers(text, r.i + 1, acc2)
            ELSE PR(TRUE, JObj(acc2), r.i)

\* the elements of an array after "[" or after a ","
ParseElements(text, i, acc) ==
    LET r == ParseValue(text, i)
        acc2 == Append(acc, r.v)
    IN IF r.err THEN PR(TRUE, JArr(acc2), r.i)
       ELSE IF r.i > Len(text) THEN PR(TRUE, JArr(acc2), r.i)
       ELSE IF text[r.i].k = "]" THEN PR(FALSE, JArr(acc2), r.i + 1)
       ELSE IF text[r.i].k = "," THEN ParseElements(text, r.i + 1, acc2)
       ELSE PR(TRUE, JArr(acc2), r.i)

\* one JSON value starting at token i
ParseValue(text, i) ==
    IF i > Len(text) THEN PR(TRUE, JNull, i)
    ELSE CASE text[i].k = "null" -> PR(FALSE, JNull, i + 1)
           [] text[i].k = "str" -> PR(FALSE, JStr(text[i].s), i + 1)
           [] text[i].k = "num" -> PR(FALSE, JInt(text[i].n), i + 1)
           [] text[i].k = "big" -> PR(FALSE, JBig(text[i].n), i + 1)
           [] text[i].k = "{" ->
                IF i + 1 <= Len(text) /\ text[i + 1].k = "}"
                THEN PR(FALSE, JObj(<<>>), i + 2)
                ELSE ParseMembers(text, i + 1, <<>>)
           [] text[i].k = "[" ->
                IF i + 1 <= Len(text) /\ text[i + 1].k = "]"
                THEN PR(FALSE, JArr(<<>>), i + 2)
                ELSE ParseElements(text, i + 1, <<>>)
           [] OTHER -> PR(TRUE, JNull, i)

\* deserializeJson(doc, text): the document is cleared, then one value is
\* parsed into it; on an error it holds what was parsed up to the error
Deserialize(text) ==
    LET r == ParseValue(text, 1) IN [err |-> r.err, doc |-> r.v]

(***************************************************************************)
(* Workflow definitions (the JSON given to setup) and the texts the        *)
(* caller hands to setup and restoreState.                                 *)
(***************************************************************************)
TaskState(resource, next) ==
    JObj(<<KV("Type", JStr("Task")), KV("Resource", JStr(resource)),
           KV("Next", JStr(next))>>)

\* a Task with no Next field
LastTaskState(resource) ==
    JObj(<<KV("Type", JStr("Task")), KV("Resource", JStr(resource))>>)

ChoiceEntry(match, next) ==
    JObj(<<KV("StringEquals", JStr(match)), KV("Next", JStr(next))>>)

ChoiceState(variable, entries, default) ==
    JObj(<<KV("Type", JStr("Choice")), KV("Variable", JStr(variable)),
           KV("Choices", JArr(entries)), KV("Default", JStr(default))>>)

WaitSeconds(seconds, next) ==
    JObj(<<KV("Type", JStr("Wait")), KV("Seconds", JInt(seconds)),
           KV("Next", JStr(next))>>)

WaitBoth(seconds, millis, next) ==
    JObj(<<KV("Type", JStr("Wait")), KV("Seconds", JInt(seconds)),
           KV("Millis", JInt(millis)), KV("Next", JStr(next))>>)

\* a Choice with no Default field
ChoiceNoDefault(variable, entries) ==
    JObj(<<KV("Type", JStr("Choice")), KV("Variable", JStr(variable)),
           KV("Choices", JArr(entries))>>)

\* a Wait with a Millis field only
WaitMillis(millis, next) ==
    JObj(<<KV("Type", JStr("Wait")), KV("Millis", JInt(millis)),
           KV("Next", JStr(next))>>)

\* a state of a type the interpreter has no branch for
OtherState(type) == JObj(<<KV("Type", JStr(type))>>)

\* a state with no Type field
UntypedState(next) == JObj(<<KV("Next", JStr(next))>>)

Definition(startAt, states) ==
    JObj(<<KV("StartAt", JStr(startAt)), KV("States", JObj(states))>>)

\* The definition of the general specification: a Task, a Choice with two
\* entries for the same value and one for the text "null", a Wait with both
\* unit fields followed by a Wait with Seconds only, and a last Task.
MainDef ==
    Definition("A", <<
        KV("A", TaskState("read", "B")),
        KV("B", ChoiceState("v", <<ChoiceEntry("hot", "C"),
                                   ChoiceEntry("hot", "D"),
                                   ChoiceEntry("null", "E")>>, "D")),
        KV("C", WaitBoth(1, 1500, "E")),
        KV("E", WaitSeconds(2, "D")),
        KV("D", LastTaskState("log"))>>)

\* The five-state example of the README and of the specification's scenario
ExampleDef ==
    Definition("A", <<
        KV("A", TaskState("read", "B")),
        KV("B", ChoiceState("v", <<ChoiceEntry("hot", "C")>>, "D")),
        KV("C", WaitSeconds(5, "E")),
        KV("D", LastTaskState("log")),
        KV("E", LastTaskState("cool"))>>)

\* A definition of the descriptors the interpreter does not expect: a
\* Choice without Default, a Wait with Millis only (followed by one with
\* both unit fields and one with Seconds only), a state of type Succeed
\* and a state without Type.
EdgeDef ==
    Definition("P", <<
        KV("P", TaskState("read", "Q")),
        KV("Q", ChoiceNoDefault("v", <<ChoiceEntry("hot", "M"),
                                       ChoiceEntry("cold", "U")>>)),
        KV("M", WaitMillis(500, "W")),
        KV("W", WaitBoth(1, 1500, "X")),
        KV("X", WaitSeconds(1, "S")),
        KV("S", OtherState("Succeed")),
        KV("U", UntypedState("P"))>>)

MainText == Serialize(MainDef)

\* a definition text cut off in the middle of its States object
TruncatedText == SubSeq(MainText, 1, 12)

\* well-formed texts given to setup
GoodConfigs == {MainText}

\* malformed texts given to setup: empty, cut off
BadConfigs == {<<>>, TruncatedText}

(***************************************************************************)
(* Bounds and input sets of the model.                                     *)
(***************************************************************************)
\* how far, in clock units since construction, a behaviour is followed
MaxElapsed == 3000

\* the same for the scenario of the five-state example and its 5 s wait
ScenarioElapsed == 7000

\* the revisions of the interpreter: 1 is step-function.cpp, 2 is
\* StepFunction.cpp
Revisions == {1, 2}

\* the header defines LOG for the build
LOG == TRUE

\* millis() when the interpreter is constructed: just after power-up, and
\* shortly before the 32-bit counter wraps from 2^32 - 1 to 0
BootClocks == {0, -1500}

\* how far the clock advances between two calls of the caller's loop
TickSteps == {500, 1000}

\* how far the clock advances inside one run() call, between the call's
\* first reading of millis() and its second
InnerSteps == {0, 1000}

\* what the task callback does to the variable store
Effects == {"none", "hot", "cold"}

(***************************************************************************)
(* The interpreter's state, the clock, and what the caller observes.       *)
(***************************************************************************)
VARIABLES
    rev,               \* the revision of the code that runs
    doc,               \* JsonDocument doc: the parsed definition
    globalState,       \* JsonDocument globalState: the variable store
    currentState,      \* String currentState
    waitUntil,         \* unsigned long waitUntil
    recommendedDelay,  \* unsigned long recommendedDelay
    clock,             \* what millis() returns now
    boot,              \* what millis() returned at construction
    horizon,           \* how far past boot the behaviour is followed
    op,                \* the operation called last
    ret,               \* what it returned (restoreState: 1 true, 0 false)
    calls,             \* the resources the last operation gave the callback
    from,              \* currentState when the last operation was called
    arg,               \* the text given to the last setup or restoreState
    blob,              \* the text saveState returned, if it was called last
    ends,              \* run() calls in a row that returned END_OF_PROCESS
    pending,           \* the Wait dispatched last, until its time is over
    hist,              \* the scenario's run() results, repeats left out
    poll               \* the last run() call, if it found the wait not over

vars ==
    <<rev, doc, globalState, currentState, waitUntil, recommendedDelay,
      clock, boot, horizon, op, ret, calls, from, arg, blob, ends, pending,
      hist, poll>>

\* enum StepFunctionState
INVALID_STATE == -2
END_OF_PROCESS == -1
NEXT_STEP == 1
WAIT_DELAY == 2

\* no Wait is being timed
\* no run() call has found the wait not over since the cursor was last set
NoPoll == [on |-> FALSE, t |-> 0]

NoPending == [on |-> FALSE, t |-> 0, D |-> 0, next |-> "", polled |-> FALSE]

\* the state after StepFunction::StepFunction(callback)
Constructed ==
    /\ doc = JNull
    /\ globalState = JNull
    /\ currentState = ""
    /\ waitUntil = 0
    /\ recommendedDelay = 0

Init ==
    /\ rev \in Revisions
    /\ Constructed
    /\ boot \in BootClocks
    /\ clock = boot
    /\ horizon = MaxElapsed
    /\ op = "new"
    /\ ret = 0
    /\ calls = <<>>
    /\ from = ""
    /\ arg = <<>>
    /\ blob = <<>>
    /\ ends = 0
    /\ pending = NoPending
    /\ hist = <<>>
    /\ poll = NoPoll

\* the clock may advance by d without leaving the model's bound
MayAdvance(d) == (clock - boot) + d <= horizon

\* what the caller sees of a call: the operation o, its result r, the
\* callback's arguments c and the text a it was given
Observed(o, r, c, a) ==
    /\ op' = o
    /\ ret' = r
    /\ calls' = c
    /\ from' = currentState
    /\ arg' = a

(***************************************************************************)
(* Texts known beforehand are parsed once.                                 *)
(***************************************************************************)
\* the document saveState builds: the four fields under their keys
SaveDoc(gs, cs, wu, rd) ==
    JObj(<<KV("GlobalState", gs),
           KV("CurrentState", JStr(cs)),
           KV("WaitUntil", JULong(wu)),
           KV("RecommendedDelay", JULong(rd))>>)

\* the text saveState returns
SavedText(gs, cs, wu, rd) == Serialize(SaveDoc(gs, cs, wu, rd))

\* texts given to restoreState besides the one saveState returned last:
\* an empty object, a state that the definition does not have with a
\* deadline, a variable store that is no object, and texts that are no JSON
GoodBlobs ==
    {<<TLBrace, TRBrace>>,
     SavedText(JObj(<<KV("v", JStr("hot"))>>), "Z", 1000, 500),
     SavedText(JInt(5), "B", 0, 0)}

BadBlobs ==
    {<<>>,
     SubSeq(SavedText(JObj(<<KV("v", JStr("cold"))>>), "D", 500, 500), 1, 14)}

KnownTexts == GoodConfigs \cup BadConfigs \cup GoodBlobs \cup BadBlobs

ParsedKnown == [text \in KnownTexts |-> Deserialize(text)]

\* deserializeJson(document, text)
Parse(text) ==
    IF text \in KnownTexts THEN ParsedKnown[text] ELSE Deserialize(text)

(***************************************************************************)
(* setup(jsonConfig)                                                       *)
(***************************************************************************)
\* what is left in doc after the parse: the parsed document, and after an
\* error what had been parsed before it
DocAfter(r) == r.doc

\* currentState after setup: "StartAt" of a parsed document, untouched
\* after an error
StartState(r, cs) ==
    IF r.err THEN cs ELSE AsString(Member(r.doc, "StartAt"))

\* waitUntil after setup: setup does not assign it
DeadlineAfterSetup(r, wu) == wu

Setup(text) ==
    LET r == Parse(text)
    IN /\ doc' = DocAfter(r)
       /\ currentState' = StartState(r, currentState)
       /\ waitUntil' = DeadlineAfterSetup(r, waitUntil)
       /\ Observed("setup", 0, <<>>, text)
       /\ blob' = <<>>
       /\ ends' = 0
       /\ pending' = NoPending
       /\ poll' = NoPoll
       /\ UNCHANGED <<rev, globalState, recommendedDelay, clock, boot,
                      horizon, hist>>

(***************************************************************************)
(* run()                                                                   *)
(***************************************************************************)
\* StillWaiting gone wrong: run() without its waiting branch
StillWaiting_Never(now, wu) == FALSE

\* StillWaiting gone wrong: the comparison turned around
StillWaiting_Swapped(now, wu) == ULess(wu, now)

\* millis() < waitUntil
StillWaiting(now, wu) == ULess(now, wu)

\* recommendedDelay = waitUntil - millis(); revision 2 then tests the
\* unsigned result for < 0, which it never is
RemainingDelay(rv, wu, now) ==
    LET d == USub(wu, now)
    IN IF rv = 2 /\ ULess(d, 0) THEN 0 ELSE d

\* StateOf gone wrong: a cursor that names no state is taken to StartAt
StateOf_OrStart(d, cs) ==
    LET states == Member(d, "States")
        s == AsObject(Member(states, cs))
    IN IF IsNull(s)
       THEN AsObject(Member(states, AsString(Member(d, "StartAt"))))
       ELSE s

\* states[currentState] as a JsonObject: null when there is no such member
\* or it is no object
StateOf(d, cs) == AsObject(Member(Member(d, "States"), cs))

\* state["Type"].as<String>()
TypeOf(state) == AsString(Member(state, "Type"))

\* state["Resource"].as<String>()
ResourceOf(state) == AsString(Member(state, "Resource"))

\* HasNext gone wrong: the test for a string left out
HasNext_Always(state) == TRUE

\* state["Next"].is<String>()
HasNext(state) == IsString(Member(state, "Next"))

\* NextOf gone wrong: the member read is "Default"
NextOf_Default(state) == AsString(Member(state, "Default"))

\* state["Next"].as<String>()
NextOf(state) == AsString(Member(state, "Next"))

\* the callback, as far as the interpreter sees it: it may write variable v
Callback(effect, gs) ==
    CASE effect = "hot" -> SetMember(gs, "v", JStr("hot"))
      [] effect = "cold" -> SetMember(gs, "v", JStr("cold"))
      [] OTHER -> gs

\* ChoiceTarget gone wrong: the loop has no break, so the last match wins
ChoiceTarget_LastMatch(state, gs) ==
    LET choices == Elements(Member(state, "Choices"))
        variable == AsString(Member(state, "Variable"))
        value == AsString(Member(gs, variable))
        hits == {i \in 1..Len(choices) :
                    AsString(Member(choices[i], "StringEquals")) = value}
    IN IF hits # {}
       THEN LET last == CHOOSE i \in hits : \A j \in hits : i >= j
            IN AsString(Member(choices[last], "Next"))
       ELSE AsString(Member(state, "Default"))

\* the Choice branch: the Next of the first entry of Choices, in order,
\* whose StringEquals is the variable's value as a string, else Default
ChoiceTarget(state, gs) ==
    LET choices == Elements(Member(state, "Choices"))
        variable == AsString(Member(state, "Variable"))
        value == AsString(Member(gs, variable))
        hits == {i \in 1..Len(choices) :
                    AsString(Member(choices[i], "StringEquals")) = value}
    IN IF hits # {}
       THEN LET first == CHOOSE i \in hits : \A j \in hits : i <= j
            IN AsString(Member(choices[first], "Next"))
       ELSE AsString(Member(state, "Default"))

\* the Wait branch's duration in clock units: revision 1 reads "Seconds",
\* revision 2 reads "Millis"
WaitDuration(rv, state) ==
    IF rv = 1 THEN AsInt(Member(state, "Seconds")) * 1000
    ELSE AsInt(Member(state, "Millis"))

\* waitUntil = millis() + duration
WaitDeadline(rv, state, now) == UAdd(now, WaitDuration(rv, state))

\* what the Wait branch returns: revision 2 returns WAIT_DELAY inside its
\* LOG block, revision 1 falls through to NEXT_STEP
WaitResult_NoLog(rv) == NEXT_STEP

WaitResult(rv) == IF rv = 2 /\ LOG THEN WAIT_DELAY ELSE NEXT_STEP

\* waitUntil after a Task or Choice branch: revision 2 sets it to millis()
TouchedDeadline(rv, wu, now) == IF rv = 2 THEN now ELSE wu

\* what one run() call does: its branch, its result, the fields after it
\* and the callback's arguments.  now0 is millis() at the first reading,
\* now1 at every later one.
Result(kind, r, cs, wu, rd, gs, c) ==
    [kind |-> kind, ret |-> r, cs |-> cs, wu |-> wu, rd |-> rd, gs |-> gs,
     calls |-> c]

RunResult(rv, d, cs, wu, rd, gs, now0, now1, effect) ==
    LET state == StateOf(d, cs)
        type == TypeOf(state)
    IN IF StillWaiting(now0, wu)
       THEN Result("waiting", WAIT_DELAY, cs, wu,
                   RemainingDelay(rv, wu, now1), gs, <<>>)
       ELSE IF ~IsNull(state)
       THEN CASE type = "Task" ->
                 Result("Task",
                        IF HasNext(state) THEN NEXT_STEP ELSE END_OF_PROCESS,
                        IF HasNext(state) THEN NextOf(state) ELSE cs,
                        TouchedDeadline(rv, wu, now1), rd,
                        Callback(effect, gs), <<ResourceOf(state)>>)
              [] type = "Choice" ->
                 Result("Choice", NEXT_STEP, ChoiceTarget(state, gs),
                        TouchedDeadline(rv, wu, now1), rd, gs, <<>>)
              [] type = "Wait" ->
                 Result("Wait", WaitResult(rv), NextOf(state),
                        WaitDeadline(rv, state, now1), rd, gs, <<>>)
              [] OTHER ->
                 Result("other", NEXT_STEP, cs, wu, rd, gs, <<>>)
       ELSE Result("invalid", INVALID_STATE, cs, wu, rd, gs, <<>>)

\* the scenario's history: a result is appended unless it repeats the last
Record(h, entry) ==
    IF h # <<>> /\ h[Len(h)] = entry THEN h ELSE Append(h, entry)

Outcome(r, f, t, w) == [ret |-> r, from |-> f, to |-> t, waiting |-> w]

\* the Wait being timed after a run() call at clock now0 that did out
PendingAfter(p, out, now0, now1, dur) ==
    IF out.kind = "Wait"
    THEN [on |-> TRUE, t |-> now1, D |-> dur, next |-> out.cs,
          polled |-> FALSE]
    ELSE IF p.on /\ USub(now0, p.t) < p.D /\ out.kind = "waiting"
    THEN [p EXCEPT !.polled = TRUE]
    ELSE NoPending

\* run(), with the clock advancing by d between its readings of millis()
\* and a callback that acts as effect says
Run(d, effect) ==
    LET now1 == UAdd(clock, d)
        out == RunResult(rev, doc, currentState, waitUntil,
                         recommendedDelay, globalState, clock, now1, effect)
    IN /\ MayAdvance(d)
       /\ clock' = now1
       /\ currentState' = out.cs
       /\ waitUntil' = out.wu
       /\ recommendedDelay' = out.rd
       /\ globalState' = out.gs
       /\ Observed("run", out.ret, out.calls, <<>>)
       /\ blob' = <<>>
       /\ ends' = IF out.ret # END_OF_PROCESS THEN 0
                  ELSE IF ends < 2 THEN ends + 1 ELSE ends
       /\ pending' = PendingAfter(pending, out, clock, now1,
                         WaitDuration(rev, StateOf(doc, currentState)))
       /\ hist' = IF hist = <<>> THEN hist
                  ELSE Record(hist, Outcome(out.ret, currentState, out.cs,
                                            out.kind = "waiting"))
       /\ poll' = IF out.kind = "waiting" THEN [on |-> TRUE, t |-> clock]
                  ELSE NoPoll
       /\ UNCHANGED <<rev, doc, boot, horizon>>

\* unsigned long getRecommendedDelay()
GetRecommendedDelay ==
    /\ Observed("delay", recommendedDelay, <<>>, <<>>)
    /\ blob' = <<>>
    /\ UNCHANGED <<rev, doc, globalState, currentState, waitUntil,
                   recommendedDelay, clock, boot, horizon, ends, pending,
                   hist, poll>>

\* time passes between two calls
Tick(d) ==
    /\ MayAdvance(d)
    /\ clock' = UAdd(clock, d)
    /\ Observed("tick", 0, <<>>, <<>>)
    /\ blob' = <<>>
    /\ UNCHANGED <<rev, doc, globalState, currentState, waitUntil,
                   recommendedDelay, boot, horizon, ends, pending, hist,
                   poll>>

(***************************************************************************)
(* saveState() and restoreState(savedState)                                *)
(***************************************************************************)
SaveState ==
    /\ blob' = SavedText(globalState, currentState, waitUntil,
                         recommendedDelay)
    /\ Observed("save", 0, <<>>, <<>>)
    /\ UNCHANGED <<rev, doc, globalState, currentState, waitUntil,
                   recommendedDelay, clock, boot, horizon, ends, pending,
                   hist, poll>>

\* the four fields as restoreState reads them from the parsed document
RestoredGlobalState(d) == AsObject(Member(d, "GlobalState"))

RestoredCurrentState(d) == AsString(Member(d, "CurrentState"))

RestoredWaitUntil(d) == AsULong(Member(d, "WaitUntil"))

RestoredDelay_FromDeadline(d) == AsULong(Member(d, "WaitUntil"))

RestoredDelay(d) == AsULong(Member(d, "RecommendedDelay"))

\* whether restoreState gives up after parsing
RestoreFails(r) == r.err

\* restoreState parsing into the members instead of a local document: the
\* cursor is assigned before the error is looked at
RestoreState_Eager(text) ==
    LET r == Parse(text)
    IN /\ currentState' = RestoredCurrentState(r.doc)
       /\ IF RestoreFails(r)
          THEN /\ Observed("restore", 0, <<>>, text)
               /\ UNCHANGED <<globalState, waitUntil, recommendedDelay>>
          ELSE /\ Observed("restore", 1, <<>>, text)
               /\ globalState' = RestoredGlobalState(r.doc)
               /\ waitUntil' = RestoredWaitUntil(r.doc)
               /\ recommendedDelay' = RestoredDelay(r.doc)
       /\ blob' = <<>>
       /\ ends' = 0
       /\ pending' = NoPending
       /\ poll' = NoPoll
       /\ UNCHANGED <<rev, doc, clock, boot, horizon, hist>>

RestoreState(text) ==
    LET r == Parse(text)
    IN /\ IF RestoreFails(r)
          THEN /\ Observed("restore", 0, <<>>, text)
               /\ UNCHANGED <<globalState, currentState, waitUntil,
                              recommendedDelay>>
          ELSE /\ Observed("restore", 1, <<>>, text)
               /\ globalState' = RestoredGlobalState(r.doc)
               /\ currentState' = RestoredCurrentState(r.doc)
               /\ waitUntil' = RestoredWaitUntil(r.doc)
               /\ recommendedDelay' = RestoredDelay(r.doc)
       /\ blob' = <<>>
       /\ ends' = 0
       /\ pending' = NoPending
       /\ poll' = NoPoll
       /\ UNCHANGED <<rev, doc, clock, boot, horizon, hist>>

(***************************************************************************)
(* The interpreter driven by a caller: setup, run, the delay accessor and  *)
(* the passing of time, with its state saved and restored in between.      *)
(***************************************************************************)
Next ==
    \/ \E text \in GoodConfigs \cup BadConfigs : Setup(text)
    \/ \E d \in InnerSteps : \E effect \in Effects : Run(d, effect)
    \/ GetRecommendedDelay
    \/ \E d \in TickSteps : Tick(d)
    \/ SaveState
    \/ \E text \in {blob} \cup GoodBlobs \cup BadBlobs : RestoreState(text)

Spec == Init /\ [][Next]_vars

(***************************************************************************)
(* The scenario of the five-state example: setup with the example's        *)
(* definition, a callback that sets v to "hot" on resource "read", and a   *)
(* caller that only calls run() while time passes.                         *)
(***************************************************************************)
\* millis() at construction in the scenario: so as the 5 s wait ends before
\* the counter wraps, and so as it ends after
ScenarioBoots == {0, -3000}

InitExample ==
    /\ rev \in Revisions
    /\ doc = Deserialize(Serialize(ExampleDef)).doc
    /\ globalState = JNull
    /\ currentState = AsString(Member(ExampleDef, "StartAt"))
    /\ waitUntil = 0
    /\ recommendedDelay = 0
    /\ boot \in ScenarioBoots
    /\ clock = boot
    /\ horizon = ScenarioElapsed
    /\ op = "setup"
    /\ ret = 0
    /\ calls = <<>>
    /\ from = ""
    /\ arg = Serialize(ExampleDef)
    /\ blob = <<>>
    /\ ends = 0
    /\ pending = NoPending
    /\ hist = <<Outcome(0, "", "A", FALSE)>>
    /\ poll = NoPoll

\* the scenario's callback
ExampleEffect ==
    IF ResourceOf(StateOf(doc, currentState)) = "read" THEN "hot" ELSE "none"

NextExample ==
    \/ \E d \in InnerSteps : Run(d, ExampleEffect)
    \/ \E d \in TickSteps : Tick(d)

SpecExample == InitExample /\ [][NextExample]_vars

(***************************************************************************)
(* The interpreter on the definition of unexpected descriptors: setup with *)
(* it, then a caller that calls run() while time passes, with a callback   *)
(* that sets v, or does not.                                               *)
(***************************************************************************)
InitEdge ==
    /\ rev \in Revisions
    /\ doc = Deserialize(Serialize(EdgeDef)).doc
    /\ globalState = JNull
    /\ currentState = AsString(Member(EdgeDef, "StartAt"))
    /\ waitUntil = 0
    /\ recommendedDelay = 0
    /\ boot \in BootClocks
    /\ clock = boot
    /\ horizon = MaxElapsed
    /\ op = "setup"
    /\ ret = 0
    /\ calls = <<>>
    /\ from = ""
    /\ arg = Serialize(EdgeDef)
    /\ blob = <<>>
    /\ ends = 0
    /\ pending = NoPending
    /\ hist = <<>>
    /\ poll = NoPoll

NextEdge ==
    \/ \E d \in InnerSteps : \E effect \in Effects : Run(d, effect)
    \/ \E d \in TickSteps : Tick(d)

SpecEdge == InitEdge /\ [][NextEdge]_vars

(***************************************************************************)
(* The interpreter under a caller that never stops: setup with the general *)
(* definition (every state a Task, Choice or Wait, every target a state,   *)
(* no cycle), then run() called again and again while the clock advances.  *)
(* Between two calls at most the largest of TickSteps passes.  Idle time   *)
(* is followed up to MaxElapsed; when the clock is earlier than waitUntil  *)
(* by no more than the longest Wait, time passes freely, up to the         *)
(* deadline and over it.                                                   *)
(***************************************************************************)
\* the clock stays within this distance of its value at construction
LiveElapsed == 12000

InitLive ==
    /\ rev \in Revisions
    /\ doc = Parse(MainText).doc
    /\ globalState = JNull
    /\ currentState = AsString(Member(MainDef, "StartAt"))
    /\ waitUntil = 0
    /\ recommendedDelay = 0
    /\ boot \in BootClocks
    /\ clock = boot
    /\ horizon = LiveElapsed
    /\ op = "setup"
    /\ ret = 0
    /\ calls = <<>>
    /\ from = ""
    /\ arg = MainText
    /\ blob = <<>>
    /\ ends = 0
    /\ pending = NoPending
    /\ hist = <<>>
    /\ poll = NoPoll

\* the longest duration of a Wait state of the definition, in clock units
LongestWait == 2000

\* time may pass by d: the idle time followed is not used up, or a deadline
\* is no further ahead than a Wait state can put it
MayPass(d) ==
    \/ (clock - boot) + d <= MaxElapsed
    \/ /\ ULess(clock, waitUntil)
       /\ ~ULess(LongestWait, USub(waitUntil, clock))

\* one run() call of the loop
LiveRun(d, effect) == (d = 0 \/ MayPass(d)) /\ Run(d, effect)

\* time passing between two calls of the loop
LiveTick(d) == MayPass(d) /\ Tick(d)

\* The loop's calls during a long wait, all but the last left out: run() is
\* called again and again while millis() is earlier than waitUntil, the
\* last time d clock units before waitUntil.  Each of these calls takes the
\* waiting branch and assigns recommendedDelay only, so the state after the
\* last one is the state after them all.
PollUntil(d) ==
    LET landing == USub(waitUntil, d)
        out == RunResult(rev, doc, currentState, waitUntil, recommendedDelay,
                         globalState, landing, landing, "none")
    IN /\ ULess(clock, landing)
       /\ ULess(landing, waitUntil)
       /\ clock' = landing
       /\ recommendedDelay' = out.rd
       /\ Observed("run", out.ret, out.calls, <<>>)
       /\ blob' = <<>>
       /\ ends' = 0
       /\ pending' = PendingAfter(pending, out, landing, landing, 0)
       /\ poll' = [on |-> TRUE, t |-> landing]
       /\ UNCHANGED <<rev, doc, globalState, currentState, waitUntil, boot,
                      horizon, hist>>

\* the caller invokes run()
Polls ==
    \/ \E d \in InnerSteps : \E effect \in Effects : LiveRun(d, effect)
    \/ \E d \in TickSteps : PollUntil(d)

\* the clock advances
TimePasses ==
    \/ \E d \in TickSteps : LiveTick(d)
    \/ \E d \in TickSteps : PollUntil(d)

NextLive == Polls \/ TimePasses

\* the clock keeps advancing
SpecLive == InitLive /\ [][NextLive]_vars /\ WF_vars(TimePasses)

(***************************************************************************)
(* Properties.  A run() call is a step with op' = "run"; the unprimed      *)
(* variables are the state it was called in.                               *)
(***************************************************************************)
\* the four fields that saveState writes and restoreState reads
Fields == <<globalState, currentState, waitUntil, recommendedDelay>>

\* the descriptor that currentState names in the loaded definition
Here == Member(Member(doc, "States"), currentState)

\* state is a descriptor of the given Type
IsKind(state, kind) == state.t = "obj" /\ Member(state, "Type") = JStr(kind)

\* the clock is not earlier than waitUntil
Due == ~ULess(clock, waitUntil)

\* a Task descriptor with a string Next
TaskWithNext(state) == IsKind(state, "Task") /\ Member(state, "Next").t = "str"

\* a Task descriptor without one
LastTask(state) == IsKind(state, "Task") /\ Member(state, "Next").t # "str"

\* C1: a run() call on a Task state with a string Next, made when the clock
\* is not earlier than waitUntil, moves currentState to that Next, returns
\* NEXT_STEP and calls the callback exactly once, with the state's Resource.
C1_TaskAdvances ==
    [][(op' = "run" /\ Due /\ TaskWithNext(Here))
        => /\ currentState' = Member(Here, "Next").s
           /\ ret' = NEXT_STEP
           /\ calls' = <<AsString(Member(Here, "Resource"))>>]_vars

C1_Witness ==
    /\ op = "run" /\ from = "A" /\ currentState = "B"
    /\ ret = NEXT_STEP /\ calls = <<"read">>
    /\ doc = MainDef

\* C2: a run() call on a Task state without Next, made when the clock is not
\* earlier than waitUntil, returns END_OF_PROCESS, calls the callback exactly
\* once and leaves currentState (and the definition) as they are, so that
\* the interpreter is on that same Task state again for every further run()
\* call, of which each such call returns END_OF_PROCESS again.
C2_LastTaskRepeats ==
    [][(op' = "run" /\ Due /\ LastTask(Here))
        => /\ ret' = END_OF_PROCESS
           /\ Len(calls') = 1
           /\ currentState' = currentState
           /\ LastTask(Here)'
           /\ ends' = IF ends < 2 THEN ends + 1 ELSE ends]_vars

C2_Witness ==
    /\ op = "run" /\ ends = 2 /\ ret = END_OF_PROCESS
    /\ from = "D" /\ currentState = "D" /\ calls = <<"log">>

\* C3: a run() call on a Choice state, made when the clock is not earlier
\* than waitUntil, moves currentState to the Next of the first entry of
\* Choices whose StringEquals is the string value of the variable (a missing
\* variable has the string value of null), or to Default when no entry
\* matches; it returns NEXT_STEP, does not call the callback and leaves the
\* variable store as it is.
C3_ChoiceFirstMatch ==
    [][(op' = "run" /\ Due /\ IsKind(Here, "Choice"))
        => LET entries == Elements(Member(Here, "Choices"))
               value == AsString(Member(globalState,
                                        AsString(Member(Here, "Variable"))))
               Match(i) ==
                   AsString(Member(entries[i], "StringEquals")) = value
           IN /\ \/ \E i \in 1..Len(entries) :
                       /\ Match(i)
                       /\ \A j \in 1..(i - 1) : ~Match(j)
                       /\ currentState' = AsString(Member(entries[i], "Next"))
                 \/ /\ \A i \in 1..Len(entries) : ~Match(i)
                    /\ currentState' = AsString(Member(Here, "Default"))
              /\ ret' = NEXT_STEP
              /\ calls' = <<>>
              /\ globalState' = globalState]_vars

C3_Witness ==
    /\ op = "run" /\ from = "B" /\ currentState = "C" /\ ret = NEXT_STEP
    /\ Member(globalState, "v") = JStr("hot")
    /\ doc = MainDef

\* C4: after run() has dispatched a Wait state of duration D > 0 at clock
\* value t, the next run() call made before t + D returns WAIT_DELAY with
\* recommendedDelay in (0, D], and the first run() call made at or after
\* t + D does not return WAIT_DELAY but dispatches the Wait's Next.
C4_WaitTiming ==
    [][(op' = "run" /\ pending.on /\ pending.D > 0)
        => IF USub(clock, pending.t) < pending.D
           THEN pending.polled
                \/ /\ ret' = WAIT_DELAY
                   /\ ULess(0, recommendedDelay')
                   /\ ~ULess(pending.D, recommendedDelay')
           ELSE /\ ret' # WAIT_DELAY
                /\ from' = pending.next]_vars

(***************************************************************************)
(* The scenario (SpecExample).  hist holds setup's outcome and then the    *)
(* outcome of every run() call, a call that repeats the outcome of the     *)
(* call before it left out.                                                *)
(***************************************************************************)
\* the run() outcomes of the scenario so far
Seen == Tail(hist)

\* the k-th result of the sequence as the scenario is described: NEXT_STEP
\* (A to B), NEXT_STEP (B to C), WAIT_DELAY, NEXT_STEP (C to E),
\* END_OF_PROCESS
Claimed(e, k) ==
    CASE k = 1 -> e.ret = NEXT_STEP /\ e.from = "A" /\ e.to = "B"
      [] k = 2 -> e.ret = NEXT_STEP /\ e.from = "B" /\ e.to = "C"
      [] k = 3 -> e.ret = WAIT_DELAY
      [] k = 4 -> e.ret = NEXT_STEP /\ e.from = "C" /\ e.to = "E"
      [] k = 5 -> e.ret = END_OF_PROCESS
      [] OTHER -> FALSE

\* C5 as stated: the run() results of the scenario are NEXT_STEP (A to B),
\* NEXT_STEP (B to C), WAIT_DELAY repeated, NEXT_STEP (C to E),
\* END_OF_PROCESS, in this order.
C5_ClaimedSequence == \A k \in 1..Len(Seen) : Claimed(Seen[k], k)

\* the calls of the scenario that dispatched a state: those that did not
\* find the clock earlier than waitUntil
Dispatched == SelectSeq(Seen, LAMBDA e : ~e.waiting)

\* the place of a dispatching call's outcome in the order A, B, C, E: the
\* call on the Wait state C returns NEXT_STEP in revision 1 and WAIT_DELAY
\* in revision 2
Place(e) ==
    CASE e.ret = NEXT_STEP /\ e.from = "A" /\ e.to = "B" -> 1
      [] e.ret = NEXT_STEP /\ e.from = "B" /\ e.to = "C" -> 2
      [] e.ret = (IF rev = 1 THEN NEXT_STEP ELSE WAIT_DELAY)
         /\ e.from = "C" /\ e.to = "E" -> 3
      [] e.ret = END_OF_PROCESS /\ e.from = "E" /\ e.to = "E" -> 4
      [] OTHER -> 0

\* C5 as amended: leaving out the calls that find the clock earlier than
\* waitUntil (each returns WAIT_DELAY and moves nothing; revision 1 has none
\* before the Wait is dispatched), the results are NEXT_STEP (A to B),
\* NEXT_STEP (B to C), then from the call that dispatches the Wait and moves
\* C to E NEXT_STEP in revision 1 and WAIT_DELAY in revision 2, then
\* END_OF_PROCESS from E on every later dispatching call.
C5_ActualSequence ==
    /\ \A k \in 1..Len(Dispatched) :
          /\ Place(Dispatched[k]) # 0
          /\ k = 1 => Place(Dispatched[k]) = 1
          /\ k > 1 =>
                \/ Place(Dispatched[k]) = Place(Dispatched[k - 1]) + 1
                \/ Place(Dispatched[k]) = 4 /\ Place(Dispatched[k - 1]) = 4
    /\ \A k \in 1..Len(Seen) :
          Seen[k].waiting =>
              /\ Seen[k].ret = WAIT_DELAY
              /\ Seen[k].from = Seen[k].to
              /\ rev = 1 => \E j \in 1..(k - 1) : Place(Seen[j]) = 3

C5_Witness ==
    /\ rev = 1
    /\ Seen = <<Outcome(NEXT_STEP, "A", "B", FALSE),
                Outcome(NEXT_STEP, "B", "C", FALSE),
                Outcome(NEXT_STEP, "C", "E", FALSE),
                Outcome(WAIT_DELAY, "E", "E", TRUE),
                Outcome(END_OF_PROCESS, "E", "E", FALSE)>>

(***************************************************************************)
(* Saving and restoring                                                    *)
(***************************************************************************)
\* C6: saveState changes none of the variable store, currentState,
\* waitUntil and recommendedDelay, and restoreState given the text that
\* saveState has just returned answers true and leaves the four equal to
\* what they were before the save.
C6_RoundTrip ==
    [][/\ op' = "save" => Fields' = Fields
       /\ (op = "save" /\ op' = "restore" /\ arg' = blob)
             => ret' = 1 /\ Fields' = Fields]_vars

\* a saved text that is none of the fixed ones has come back, during a
\* pending wait and with a variable in the store
C6_Witness ==
    /\ op = "restore"
    /\ ret = 1
    /\ arg \notin KnownTexts
    /\ arg = SavedText(globalState, currentState, waitUntil,
                       recommendedDelay)
    /\ ULess(clock, waitUntil)
    /\ ULess(0, recommendedDelay)
    /\ ~IsNull(Member(globalState, "v"))

\* C7: restoreState either answers true and replaces the variable store,
\* currentState, waitUntil and recommendedDelay by what the text holds
\* under "GlobalState", "CurrentState", "WaitUntil" and "RecommendedDelay",
\* or answers false and keeps all four; the Definition is kept either way.
C7_AllOrNothing ==
    [][op' = "restore" =>
          /\ doc' = doc
          /\ LET d == Parse(arg').doc
             IN \/ /\ ret' = 1
                   /\ globalState' = AsObject(Member(d, "GlobalState"))
                   /\ currentState' = AsString(Member(d, "CurrentState"))
                   /\ waitUntil' = AsULong(Member(d, "WaitUntil"))
                   /\ recommendedDelay'
                         = AsULong(Member(d, "RecommendedDelay"))
                \/ /\ ret' = 0
                   /\ Fields' = Fields]_vars

\* a text cut off after its "CurrentState" member has been refused, with
\* all four fields holding something else than the text and than their
\* values after construction
C7_Witness ==
    /\ op = "restore"
    /\ ret = 0
    /\ arg \in BadBlobs
    /\ arg # <<>>
    /\ AsString(Member(Parse(arg).doc, "CurrentState")) = "D"
    /\ currentState \notin {"", "D"}
    /\ ~IsNull(Member(globalState, "v"))
    /\ waitUntil # 0
    /\ recommendedDelay # 0

(***************************************************************************)
(* setup on a used interpreter                                             *)
(***************************************************************************)
\* C8 as stated: a setup() call whose text does not parse, made after a
\* setup() that succeeded, leaves the Definition, currentState and
\* waitUntil as they were.
C8_FailedSetupKeeps ==
    [][(op' = "setup" /\ Parse(arg').err /\ doc = Parse(MainText).doc)
          => /\ doc' = doc
             /\ currentState' = currentState
             /\ waitUntil' = waitUntil]_vars

\* C9 as stated: a setup() call whose text parses puts currentState on
\* "StartAt" and waitUntil back to 0.
C9_SetupResets ==
    [][(op' = "setup" /\ ~Parse(arg').err)
          => /\ currentState' = AsString(Member(doc', "StartAt"))
             /\ waitUntil' = 0]_vars

(***************************************************************************)
(* The waiting branch                                                      *)
(***************************************************************************)
\* C10: a run() call entered while the clock reads earlier than waitUntil
\* returns WAIT_DELAY, leaves currentState, waitUntil and the variable
\* store alone and does not call the callback, whatever currentState names.
C10_WaitingFrame ==
    [][(op' = "run" /\ ULess(clock, waitUntil))
          => /\ ret' = WAIT_DELAY
             /\ currentState' = currentState
             /\ waitUntil' = waitUntil
             /\ globalState' = globalState
             /\ calls' = <<>>]_vars

\* the waiting branch has answered for a cursor that names no state of the
\* loaded Definition
C10_Witness ==
    /\ op = "run"
    /\ ret = WAIT_DELAY
    /\ from = currentState
    /\ Member(doc, "States").t = "obj"
    /\ IsNull(StateOf(doc, currentState))
    /\ calls = <<>>

(***************************************************************************)
(* A cursor that names no state                                            *)
(***************************************************************************)
\* C11: a run() call entered when the clock is not earlier than waitUntil
\* and currentState is no key of the Definition's States (or no Definition
\* is loaded) returns INVALID_STATE, does not call the callback and leaves
\* the variable store, currentState, waitUntil and recommendedDelay alone.
C11_InvalidState ==
    [][(op' = "run" /\ Due /\ IsNull(Here))
          => /\ ret' = INVALID_STATE
             /\ calls' = <<>>
             /\ Fields' = Fields]_vars

\* the call has answered for a restored cursor that the loaded Definition
\* does not have, with a variable in the store and a deadline that is over
C11_Witness ==
    /\ op = "run"
    /\ ret = INVALID_STATE
    /\ doc = Parse(MainText).doc
    /\ currentState = "Z"
    /\ waitUntil = 1000
    /\ ~IsNull(Member(globalState, "v"))

(***************************************************************************)
(* Descriptors the interpreter does not expect (SpecEdge)                  *)
(***************************************************************************)
\* an existing state that is none of Task, Choice and Wait
Untyped(state) ==
    /\ state.t = "obj"
    /\ Member(state, "Type") \notin {JStr("Task"), JStr("Choice"),
                                     JStr("Wait")}

\* C12 as stated: a run() call that dispatches an existing state whose Type
\* is none of Task, Choice and Wait, or is missing, returns INVALID_STATE.
C12_UnknownType ==
    [][(op' = "run" /\ Due /\ Untyped(Here)) => ret' = INVALID_STATE]_vars

\* C13 as stated: a run() call that dispatches a Choice state without
\* Default, none of whose entries matches the variable's value, returns
\* INVALID_STATE and does not move the cursor.
C13_NoDefaultFailsClosed ==
    [][(/\ op' = "run"
        /\ Due
        /\ IsKind(Here, "Choice")
        /\ IsNull(Member(Here, "Default"))
        /\ LET entries == Elements(Member(Here, "Choices"))
               value == AsString(Member(globalState,
                                        AsString(Member(Here, "Variable"))))
           IN \A i \in 1..Len(entries) :
                 AsString(Member(entries[i], "StringEquals")) # value)
          => /\ ret' = INVALID_STATE
             /\ currentState' = currentState]_vars

\* the duration of a Wait state as it is described: Millis if the state
\* has it, else Seconds times 1000
DescribedDuration(state) ==
    IF ~IsNull(Member(state, "Millis"))
    THEN AsInt(Member(state, "Millis"))
    ELSE AsInt(Member(state, "Seconds")) * 1000

\* C14 as stated: a run() call that dispatches a Wait state sets waitUntil
\* to the clock plus Seconds * 1000 if the state has Seconds only, plus
\* Millis if it has Millis only, and plus Millis if it has both.
C14_WaitUnits ==
    [][(op' = "run" /\ Due /\ IsKind(Here, "Wait"))
          => waitUntil' = UAdd(clock', DescribedDuration(Here))]_vars

(***************************************************************************)
(* run() after restoreState                                                *)
(***************************************************************************)
\* C15 as stated: after restoreState has succeeded with a CurrentState that
\* the loaded Definition does not have, the run() call that follows returns
\* INVALID_STATE, whatever the restored WaitUntil and the clock are.
C15_RestoredDanglingInvalid ==
    [][(op = "restore" /\ ret = 1 /\ IsNull(Here) /\ op' = "run")
          => ret' = INVALID_STATE]_vars

\* C15 as amended: after restoreState has succeeded with a CurrentState
\* that the loaded Definition does not have, the run() call that follows
\* returns INVALID_STATE if the clock is not earlier than the restored
\* WaitUntil, and WAIT_DELAY if it is earlier; the cursor stays in both
\* cases.
C15_RestoredDangling ==
    [][(op = "restore" /\ ret = 1 /\ IsNull(Here) /\ op' = "run")
          => /\ ret' = IF ULess(clock, waitUntil) THEN WAIT_DELAY
                       ELSE INVALID_STATE
             /\ currentState' = currentState]_vars

\* run() has answered WAIT_DELAY for a restored cursor that the loaded
\* Definition does not have, the whole restored wait still ahead
C15_Witness ==
    /\ op = "run"
    /\ ret = WAIT_DELAY
    /\ doc = Parse(MainText).doc
    /\ currentState = "Z"
    /\ waitUntil = 1000
    /\ recommendedDelay = 1000

(***************************************************************************)
(* Polling during a wait                                                   *)
(***************************************************************************)
\* C16 as stated: of two consecutive run() calls entered at clock values
\* t1 < t2 that are both earlier than waitUntil, the second returns
\* WAIT_DELAY like the first, leaves the cursor and the variable store
\* alone and leaves a recommendedDelay strictly smaller than the first
\* did; getRecommendedDelay() returns the field and changes nothing.
C16_EarlyCallsCountDown ==
    [][/\ (op' = "run" /\ poll.on /\ ULess(poll.t, clock)
             /\ ULess(clock, waitUntil))
          => /\ ret' = WAIT_DELAY
             /\ currentState' = currentState
             /\ globalState' = globalState
             /\ ULess(recommendedDelay', recommendedDelay)
       /\ op' = "delay"
          => /\ ret' = recommendedDelay
             /\ Fields' = Fields
             /\ doc' = doc]_vars

(***************************************************************************)
(* What run() may change                                                   *)
(***************************************************************************)
\* the state names a state descriptor holds as Next, as Default and as the
\* Next of its choice entries
Successors(state) ==
    LET entries == Elements(Member(state, "Choices"))
        named(v) == IF IsString(v) THEN {v.s} ELSE {}
    IN named(Member(state, "Next")) \cup named(Member(state, "Default"))
          \cup UNION {named(Member(entries[i], "Next")) :
                        i \in 1..Len(entries)}

\* run() leaves the Definition alone
RunKeepsDefinition == op' = "run" => doc' = doc

\* run() changes the variable store only in a call that dispatches a Task
\* and calls the callback
RunStoreOnlyInTask ==
    (op' = "run" /\ globalState' # globalState)
       => Due /\ IsKind(Here, "Task") /\ calls' # <<>>

\* run() changes recommendedDelay only in a call that finds the clock
\* earlier than waitUntil
RunDelayOnlyWaiting ==
    (op' = "run" /\ recommendedDelay' # recommendedDelay)
       => ULess(clock, waitUntil)

\* run() leaves the cursor or moves it to a successor of the state it was on
RunMovesToSuccessor ==
    op' = "run"
       => currentState' = currentState
          \/ currentState' \in Successors(AsObject(Here))

\* run() calls the callback at most once
RunCallsOnce == op' = "run" => Len(calls') <= 1

\* C17 as stated: run() never changes the Definition, changes the variable
\* store only through the Task callback, changes recommendedDelay only in
\* the waiting branch, leaves the cursor or moves it to a direct successor
\* (Next, Default or a choice target) of the state it was on, and calls the
\* callback at most once.
C17_RunConfined ==
    [][/\ RunKeepsDefinition
       /\ RunStoreOnlyInTask
       /\ RunDelayOnlyWaiting
       /\ RunMovesToSuccessor
       /\ RunCallsOnce]_vars

(***************************************************************************)
(* The recommended delay and the deadline on the 32-bit clock              *)
(***************************************************************************)
\* C18 as stated: a run() call that finds the clock earlier than waitUntil
\* stores a recommendedDelay that is at most waitUntil minus the clock at
\* entry, and 0 if the clock has reached waitUntil by the second reading.
C18_DelayFloored ==
    [][(op' = "run" /\ ULess(clock, waitUntil))
          => /\ ~ULess(USub(waitUntil, clock), recommendedDelay')
             /\ ~ULess(clock', waitUntil) => recommendedDelay' = 0]_vars

\* C19 as stated: getRecommendedDelay() called right after a run() call
\* that returned WAIT_DELAY returns the time left until waitUntil, which is
\* more than 0.
C19_DelayAfterWaitDelay ==
    [][(op = "run" /\ ret = WAIT_DELAY /\ op' = "delay")
          => /\ ret' = USub(waitUntil, clock)
             /\ ULess(0, ret')]_vars

\* C20 as stated: after run() has dispatched a Wait state of duration D at
\* clock value t, a run() call entered while fewer than D clock units have
\* passed since t dispatches nothing: it leaves the cursor and waitUntil
\* alone and does not call the callback.
C20_WaitNotCutShort ==
    [][(op' = "run" /\ pending.on /\ ULess(USub(clock, pending.t), pending.D))
          => /\ currentState' = currentState
             /\ waitUntil' = waitUntil
             /\ calls' = <<>>]_vars

(***************************************************************************)
(* Termination (SpecLive)                                                  *)
(***************************************************************************)
\* the caller invokes run() again and again
KeepsInvoking == []<><<op' = "run">>_vars

\* C21 as stated: on a definition whose states are all Task, Choice or
\* Wait, whose targets all exist and that has no cycle, a caller that keeps
\* invoking run() while the clock keeps advancing eventually receives
\* END_OF_PROCESS, and never INVALID_STATE.
C21_EventuallyEnds ==
    /\ KeepsInvoking => <>(op = "run" /\ ret = END_OF_PROCESS)
    /\ [](op = "run" => ret # INVALID_STATE)

====
